---------------------------- MODULE Spec2Model ----------------------------
(***************************************************************************)
(* Model of the game-room WebSocket router: the HTTP edge that upgrades    *)
(* /server and /client requests (src/main.rs), the router actor that owns  *)
(* the topology (src/ws_handlers/mod.rs), and the per-connection actors    *)
(* (src/ws_handlers/client_handler.rs, server_handler.rs).  The frame      *)
(* codec (src/proto/mod.rs) and the heartbeat of a connection actor are    *)
(* modelled on their own, in CodecSpec and HeartSpec; SocketSpec feeds the *)
(* connection actors raw socket frames.                                    *)
(*                                                                         *)
(* Party identifiers are u32 in the program.  The model keeps the layout   *)
(* of the identifier space (client range, two client wildcards at the top  *)
(* of it, server range, two server wildcards at the top of it) but scales  *)
(* the width from 32 bits to IdBits bits so that the per-room allocator    *)
(* can reach the wildcard value.                                           *)
(***************************************************************************)
EXTENDS Integers, Sequences, FiniteSets, TLC

(***************************************************************************)
(* Bounds of the model.                                                    *)
(***************************************************************************)
IdBits == 3            \* width of a party identifier (32 in the program)
NumRooms == 2          \* rooms that upgrades are requested for: 0..NumRooms-1
MaxConn == 3           \* connection actors created over a run
MaxServerReqs == 2     \* /server upgrade handlers that may run concurrently
MaxPending == 1        \* peer frames waiting in the router mailbox
MaxTime == 6           \* seconds the clock of HeartSpec runs

(***************************************************************************)
(* Program constants.                                                      *)
(***************************************************************************)
IdSpace == 2 ^ IdBits
OFFSET_SERVER_ID == 2 ^ (IdBits - 1)
ALL_CLIENT_ID == OFFSET_SERVER_ID - 2
ALL_CLIENT_ID_WITH_ECHO == OFFSET_SERVER_ID - 1
ALL_SERVER_ID == IdSpace - 2
ALL_SERVER_ID_WITH_ECHO == IdSpace - 1
RoomIdSpace == 256     \* room ids are u8: `room_id as u8`
UuidLen == 16
HelloByte == 240       \* 0xF0
GoodbyeByte == 15      \* 0x0F

Rooms == 0 .. (NumRooms - 1)

(***************************************************************************)
(* PartyId (src/proto/mod.rs).                                             *)
(***************************************************************************)
AllClients == [tag |-> "AllClients", n |-> 0]
AllServers == [tag |-> "AllServers", n |-> 0]
AllClientsWithEcho == [tag |-> "AllClientsWithEcho", n |-> 0]
AllServersWithEcho == [tag |-> "AllServersWithEcho", n |-> 0]
Client(n) == [tag |-> "Client", n |-> n]
Server(n) == [tag |-> "Server", n |-> n]

from_u32(v) ==
    IF v = ALL_CLIENT_ID THEN AllClients
    ELSE IF v = ALL_SERVER_ID THEN AllServers
    ELSE IF v = ALL_CLIENT_ID_WITH_ECHO THEN AllClientsWithEcho
    ELSE IF v = ALL_SERVER_ID_WITH_ECHO THEN AllServersWithEcho
    ELSE IF v >= OFFSET_SERVER_ID THEN Server(v - OFFSET_SERVER_ID)
    ELSE Client(v)

get_repr(p) ==
    CASE p.tag = "AllClientsWithEcho" -> ALL_CLIENT_ID_WITH_ECHO
      [] p.tag = "AllClients" -> ALL_CLIENT_ID
      [] p.tag = "AllServersWithEcho" -> ALL_SERVER_ID_WITH_ECHO
      [] p.tag = "AllServers" -> ALL_SERVER_ID
      [] p.tag = "Client" -> p.n
      [] p.tag = "Server" -> (OFFSET_SERVER_ID + p.n) % IdSpace

is_single_client_id(p) == p.tag = "Client"

is_single_server_id(p) == p.tag = "Server"

(***************************************************************************)
(* Uuid values: 16 bytes.  Uuid(0) is the nil uuid, the default            *)
(* --server-uuid.                                                          *)
(***************************************************************************)
Uuid(k) == [i \in 1 .. UuidLen |-> IF i = 1 THEN k ELSE 0]
acceptable_server_uuid == Uuid(0)
\* the client_id a client presents: one per connection
ClientUuids(addr) == {Uuid(addr)}

None == << >>
Some(x) == << x >>

(***************************************************************************)
(* MessageStream (src/proto/mod.rs) and InterActorMessage                  *)
(* (src/ws_handlers/mod.rs).                                               *)
(***************************************************************************)
MessageStream(code, room, origin, destination, kind, payload) ==
    [message_code |-> code, room_id |-> room, origin_id |-> origin,
     destination_id |-> destination, payload_kind |-> kind, payload |-> payload]

ServerConnect(party, addr) ==
    [kind |-> "ServerConnect", party |-> party, addr |-> addr]

ClientConnect(room, party, uuid, addr) ==
    [kind |-> "ClientConnect", room |-> room, party |-> party, uuid |-> uuid,
     addr |-> addr]

Disconnect(party, uuid) == [kind |-> "Disconnect", party |-> party, uuid |-> uuid]

NewMessage(origin, frame) == [kind |-> "NewMessage", origin |-> origin, frame |-> frame]

NoEvent == [kind |-> "None"]

(***************************************************************************)
(* The frame codec (src/proto/mod.rs): MessageStream::into_raw and         *)
(* MessageStream::from_raw.  Bytes are 0 .. 255 and a sequence is indexed  *)
(* from 1, so the byte the source calls source[i] is source[i + 1] here.   *)
(* A party id occupies its 4-byte field with its IdBits-wide value.        *)
(***************************************************************************)
LENGTH_MESSAGE_STREAM_HEADER == 20

\* PREAMBLE.to_le_bytes(), PREAMBLE = 0xFEED_BEEF
PREAMBLE == << 239, 190, 237, 254 >>

\* the half-open ranges of the header
RANGE_PREAMBLE == << 0, 4 >>
RANGE_MESSAGE_CODE == << 4, 5 >>
RANGE_ROOM_ID == << 5, 9 >>
RANGE_ORIGIN_ID == << 9, 13 >>
RANGE_DESTINATION_ID == << 13, 17 >>
RANGE_PAYLOAD_TYPE == << 17, 18 >>
RANGE_PAYLOAD_LENGTH == << 18, 20 >>

\* source[range]
Slice(source, range) == SubSeq(source, range[1] + 1, range[2])

U16Space == 65536

to_le_bytes(v, width) == [i \in 1 .. width |-> (v \div (256 ^ (i - 1))) % 256]

RECURSIVE from_le_bytes(_)
from_le_bytes(bytes) ==
    IF bytes = << >> THEN 0
    ELSE Head(bytes) + 256 * from_le_bytes(Tail(bytes))

\* MessageCode as u8
MessageCodeByte(message_code) ==
    CASE message_code = "Special" -> 94
      [] message_code = "Normal" -> 0

\* PayloadKind as u8
PayloadKindByte(payload_kind) ==
    CASE payload_kind = "Command" -> 192
      [] payload_kind = "Data" -> 218
      [] payload_kind = "Info" -> 31

Ok(value) == [tag |-> "Ok", value |-> value]
Err(message) == [tag |-> "Err", value |-> message]
\* the call did not return: `attempt to add with overflow`
Panic == [tag |-> "Panic", value |-> "overflow"]

\* OFFSET_SERVER_ID + server_id leaves the integer's width: a panic where
\* overflow is checked, the wrapped sum of get_repr where it is not
get_repr_overflows(p) == p.tag = "Server" /\ OFFSET_SERVER_ID + p.n >= IdSpace

get_repr_outcomes(p) ==
    {Ok(get_repr(p))} \cup (IF get_repr_overflows(p) THEN {Panic} ELSE {})

\* PartyId::to_le_bytes
party_to_le_bytes(p) == to_le_bytes(get_repr(p), 4)

\* the bytes into_raw returns when it returns
into_raw(frame) ==
    LET payload_length == Len(frame.payload) % U16Space
    IN PREAMBLE
       \o << MessageCodeByte(frame.message_code) >>
       \o to_le_bytes(frame.room_id, 4)
       \o party_to_le_bytes(frame.origin_id)
       \o party_to_le_bytes(frame.destination_id)
       \o << PayloadKindByte(frame.payload_kind) >>
       \o to_le_bytes(payload_length, 2)
       \o (IF payload_length > 0 THEN frame.payload ELSE << >>)

into_raw_outcomes(frame) ==
    {Ok(into_raw(frame))}
    \cup (IF get_repr_overflows(frame.origin_id)
             \/ get_repr_overflows(frame.destination_id)
          THEN {Panic} ELSE {})

\* from_raw after the preamble and the message code: the fields, the payload
\* kind and the declared length
from_raw_fields(source) ==
    IF Slice(source, RANGE_PAYLOAD_TYPE) \notin {<< 192 >>, << 218 >>, << 31 >>}
    THEN Err("Invalid PayloadKind")
    ELSE LET message_code ==
                 IF Slice(source, RANGE_MESSAGE_CODE) = << 0 >>
                 THEN "Normal" ELSE "Special"
             room_id == from_le_bytes(Slice(source, RANGE_ROOM_ID))
             origin_id == from_u32(from_le_bytes(Slice(source, RANGE_ORIGIN_ID)))
             destination_id ==
                 from_u32(from_le_bytes(Slice(source, RANGE_DESTINATION_ID)))
             payload_kind ==
                 CASE Slice(source, RANGE_PAYLOAD_TYPE) = << 192 >> -> "Command"
                   [] Slice(source, RANGE_PAYLOAD_TYPE) = << 218 >> -> "Data"
                   [] Slice(source, RANGE_PAYLOAD_TYPE) = << 31 >> -> "Info"
             payload_length == from_le_bytes(Slice(source, RANGE_PAYLOAD_LENGTH))
         IN IF payload_length + LENGTH_MESSAGE_STREAM_HEADER # Len(source)
            THEN Err("length is less than the length")
            ELSE Ok(MessageStream(message_code, room_id, origin_id,
                                  destination_id, payload_kind,
                                  IF payload_length = 0 THEN << >>
                                  ELSE SubSeq(source,
                                              LENGTH_MESSAGE_STREAM_HEADER + 1,
                                              LENGTH_MESSAGE_STREAM_HEADER
                                                + payload_length)))

\* variant: the message code is examined before the preamble
from_raw_code_before_preamble(source) ==
    IF Len(source) < LENGTH_MESSAGE_STREAM_HEADER
    THEN Err("length is less than the header length")
    ELSE IF Slice(source, RANGE_MESSAGE_CODE) \notin {<< 0 >>, << 94 >>}
    THEN Err("Invalid MessageCode")
    ELSE IF Slice(source, RANGE_PREAMBLE) # PREAMBLE
    THEN Err("Corrupted PREAMBLE")
    ELSE from_raw_fields(source)

from_raw(source) ==
    IF Len(source) < LENGTH_MESSAGE_STREAM_HEADER
    THEN Err("length is less than the header length")
    ELSE IF Slice(source, RANGE_PREAMBLE) # PREAMBLE
    THEN Err("Corrupted PREAMBLE")
    ELSE IF Slice(source, RANGE_MESSAGE_CODE) \notin {<< 0 >>, << 94 >>}
    THEN Err("Invalid MessageCode")
    ELSE from_raw_fields(source)

\* no call of the codec, no actor under the clock
NoCall == [op |-> "none"]
NoHeart == [state |-> "none"]
NoFrame == [kind |-> "none"]

(***************************************************************************)
(* State.                                                                  *)
(***************************************************************************)
VARIABLES
    server_joined,      \* HttpSharedState.server_joined (AtomicBool)
    client_counter,     \* HttpSharedState.client_counter, one per room
    available_rooms,    \* the published room list
    srvReq,             \* position of each /server handler in its code
    server_handle,      \* GameRoomRouterActor.server_handle
    game_rooms,         \* GameRoomRouterActor.game_rooms: the room keys and
                        \* the (room, party key) -> (uuid, address) entries
    routerMailbox,      \* events sent to the router, not yet handled
    routerCrashed,      \* the router's handler panicked: the actor is gone
    conns,              \* the connection actors, by address
    lastEvent,          \* history: the event the router handled last
    sent,               \* history: the sends of that handler, in order
    hellos,             \* history: the hellos delivered to server connections
    codec,              \* a call of the frame codec: its input and its result
    heart,              \* one connection actor under the clock: its heartbeat
    socket              \* history: the socket frame a connection handled last

vars == << server_joined, client_counter, available_rooms, srvReq,
           server_handle, game_rooms, routerMailbox, routerCrashed, conns,
           lastEvent, sent, hellos, codec, heart, socket >>

edgeVars == << server_joined, client_counter, srvReq >>
routerVars == << server_handle, game_rooms, available_rooms, routerCrashed >>
histVars == << lastEvent, sent, hellos >>
unitVars == << codec, heart, socket >>

Reqs == 1 .. MaxServerReqs
Addrs == 1 .. Len(conns)

SystemInit ==
    /\ server_joined = FALSE
    /\ client_counter = [r \in Rooms |-> 0]
    /\ available_rooms = << >>
    /\ srvReq = [r \in Reqs |-> "idle"]
    /\ server_handle = None
    /\ game_rooms = [rooms |-> {}, entries |-> {}]
    /\ routerMailbox = << >>
    /\ routerCrashed = FALSE
    /\ conns = << >>
    /\ lastEvent = NoEvent
    /\ sent = << >>
    /\ hellos = {}

Init ==
    /\ SystemInit
    /\ codec = NoCall
    /\ heart = NoHeart
    /\ socket = NoFrame

(***************************************************************************)
(* lastEvent and sent describe the handler the router ran last; any other  *)
(* step clears them, so they are read in the state right after the         *)
(* handler.  hellos only grows.                                            *)
(***************************************************************************)
ClearHistory == lastEvent' = NoEvent /\ sent' = << >> /\ hellos' = hellos

(***************************************************************************)
(* do_send to the router: dropped silently once the actor is gone.         *)
(***************************************************************************)
SendRouter(mailbox, crashed, m) == IF crashed THEN mailbox ELSE Append(mailbox, m)

(***************************************************************************)
(* A connection actor.  `room` is the room a client asked for at upgrade   *)
(* (the actor does not store it; the router does, as the key of the room   *)
(* table).                                                                 *)
(***************************************************************************)
NewActor(kind, party, uuid, room) ==
    [kind |-> kind, party_id |-> party, client_id |-> uuid, room |-> room,
     state |-> "running", inbox |-> << >>]

(***************************************************************************)
(* The room table: BTreeMap<u8, BTreeMap<u32, (Uuid, Addr)>>.  `rooms` is  *)
(* the key set of the outer map (a room entry stays once created),         *)
(* `entries` the inner maps' entries; at most one entry per (room, party). *)
(***************************************************************************)
RoomEntry(room, key, uuid, addr) ==
    [room |-> room, party |-> key, uuid |-> uuid, addr |-> addr]

room_insert(gr, room, key, uuid, addr) ==
    [rooms |-> gr.rooms \cup {room},
     entries |-> {e \in gr.entries : ~(e.room = room /\ e.party = key)}
                   \cup {RoomEntry(room, key, uuid, addr)}]

\* variant: the scan stops at the first room that held the key
rooms_remove_first_room(gr, key) ==
    [rooms |-> gr.rooms,
     entries |-> {e \in gr.entries :
                    \/ e.party # key
                    \/ \E f \in gr.entries : f.party = key /\ f.room < e.room}]

\* rooms.remove(&key) in every room
rooms_remove(gr, key) ==
    [rooms |-> gr.rooms, entries |-> {e \in gr.entries : e.party # key}]

\* game_rooms.get(&room_id): the clients of a room (empty when absent)
room_clients(gr, room) == {e \in gr.entries : e.room = room}

\* BTreeMap iteration: ascending room, then ascending party key
EntryLess(a, b) == a.room < b.room \/ (a.room = b.room /\ a.party < b.party)

RECURSIVE InOrder(_)
InOrder(E) ==
    IF E = {} THEN << >>
    ELSE LET first == CHOOSE a \in E : \A b \in E \ {a} : EntryLess(a, b)
         IN << first >> \o InOrder(E \ {first})

(***************************************************************************)
(* A send of the router: the target address and the message.  An actor     *)
(* that has stopped no longer receives (do_send on a closed mailbox fails  *)
(* silently).                                                              *)
(***************************************************************************)
SendTo(addr, m) == [to |-> addr, msg |-> m]

RECURSIVE Deliver(_, _)
Deliver(cs, sends) ==
    IF sends = << >> THEN cs
    ELSE LET s == Head(sends)
             next == IF cs[s.to].state = "running"
                     THEN [cs EXCEPT ![s.to].inbox = Append(@, s.msg)]
                     ELSE cs
         IN Deliver(next, Tail(sends))

(***************************************************************************)
(* Router: the frames and sends its handler builds                         *)
(* (src/ws_handlers/mod.rs, GameRoomRouterActor::handle).                  *)
(***************************************************************************)
\* variant: the goodbye marker in the hello
hello_payload_wrong_marker(client_id) == << GoodbyeByte >> \o client_id

hello_payload(client_id) == << HelloByte >> \o client_id

goodbye_payload(client_id) == << GoodbyeByte >> \o client_id

join_info(room_id, party_id, client_id) ==
    MessageStream("Special", room_id, party_id, Server(0), "Info",
                  hello_payload(client_id))

exit_info(room_id, party_id, client_id) ==
    MessageStream("Special", room_id, party_id, Server(0), "Info",
                  goodbye_payload(client_id))

\* ClientConnect: the hello goes to the server handle, when there is one
hello_sends(handle, room_id, party_id, client_id) ==
    IF handle # None
    THEN << SendTo(handle[1].addr,
                   NewMessage(party_id, join_info(room_id, party_id, client_id))) >>
    ELSE << >>

\* Disconnect(Server(0)): one Disconnect per entry of every room
RECURSIVE cascade_from(_)
cascade_from(ordered) ==
    IF ordered = << >> THEN << >>
    ELSE LET e == Head(ordered)
         IN << SendTo(e.addr, Disconnect(from_u32(e.party), Some(e.uuid))) >>
              \o cascade_from(Tail(ordered))

\* variant: the loop stops after the first room
cascade_sends_first_room(gr) ==
    cascade_from(InOrder({e \in gr.entries :
                            \A o \in gr.entries : e.room <= o.room}))

cascade_sends(gr) == cascade_from(InOrder(gr.entries))

\* Disconnect(client): one goodbye per room the party key was removed from
RECURSIVE goodbye_from(_, _, _)
goodbye_from(ordered, handle, party_id) ==
    IF ordered = << >> THEN << >>
    ELSE LET e == Head(ordered)
         IN (IF handle # None
             THEN << SendTo(handle[1].addr,
                            NewMessage(party_id,
                                       exit_info(e.room, party_id, e.uuid))) >>
             ELSE << >>)
              \o goodbye_from(Tail(ordered), handle, party_id)

removed_entries(gr, party_id) ==
    {e \in gr.entries : e.party = get_repr(party_id)}

\* variant: the server is told of a departure even when no entry was removed
goodbye_sends_unconditional(gr, handle, party_id) ==
    IF removed_entries(gr, party_id) = {} /\ handle # None
    THEN << SendTo(handle[1].addr,
                   NewMessage(party_id, exit_info(0, party_id, Uuid(0)))) >>
    ELSE goodbye_from(InOrder(removed_entries(gr, party_id)), handle, party_id)

goodbye_sends(gr, handle, party_id) ==
    goodbye_from(InOrder(removed_entries(gr, party_id)), handle, party_id)

(***************************************************************************)
(* Special frames: sort_unstable, dedup, truncate to 256, publish.         *)
(***************************************************************************)
RECURSIVE insert_sorted(_, _)
insert_sorted(seq, x) ==
    IF seq = << >> THEN << x >>
    ELSE IF x <= Head(seq) THEN << x >> \o seq
    ELSE << Head(seq) >> \o insert_sorted(Tail(seq), x)

\* variant: the list is left in the order of the payload
sort_unstable_keep_order(seq) == seq

RECURSIVE sort_unstable(_)
sort_unstable(seq) ==
    IF seq = << >> THEN << >>
    ELSE insert_sorted(sort_unstable(Tail(seq)), Head(seq))

\* Vec::dedup: drops an element equal to the one before it
RECURSIVE dedup(_)
dedup(seq) ==
    IF Len(seq) < 2 THEN seq
    ELSE IF seq[1] = seq[2] THEN dedup(Tail(seq))
    ELSE << seq[1] >> \o dedup(Tail(seq))

\* variant: sorted but not deduplicated
published_rooms_no_dedup(payload) == sort_unstable(payload)

published_rooms(payload) ==
    LET room_list == dedup(sort_unstable(payload))
        room_count == IF Len(room_list) > RoomIdSpace THEN RoomIdSpace
                      ELSE Len(room_list)
    IN SubSeq(room_list, 1, room_count)

special_accepted(origin_party_id, frame) ==
    frame.payload_kind = "Info" /\ origin_party_id = Server(0)

(***************************************************************************)
(* Normal frames: origin check, then dispatch on the destination.          *)
(***************************************************************************)
IsWildcard(p) ==
    p.tag \in {"AllClients", "AllServers", "AllClientsWithEcho", "AllServersWithEcho"}

\* variant: the origin is not compared with the submitting party
normal_accepted_any_origin(origin_party_id, frame) ==
    is_single_client_id(frame.origin_id) \/ is_single_server_id(frame.origin_id)

normal_accepted(origin_party_id, frame) ==
    /\ origin_party_id = frame.origin_id
    /\ is_single_server_id(origin_party_id) # is_single_client_id(origin_party_id)

\* variant: the room id without the cast to u8
room_of_untruncated(frame) == frame.room_id

\* `message_stream.room_id as u8`
room_of(frame) == frame.room_id % RoomIdSpace

\* variant: an absent server handle is skipped, the handler does not fail
normal_panics_never(origin_party_id, frame, handle) == FALSE

\* self.server_handle.as_ref().unwrap() on an absent handle
normal_panics(origin_party_id, frame, handle) ==
    /\ normal_accepted(origin_party_id, frame)
    /\ IsWildcard(frame.destination_id) \/ frame.destination_id.tag = "Server"
    /\ handle = None

\* variant: each receiver gets the frame re-addressed to itself
forward_to_readdressed(ordered, m) ==
    [i \in 1 .. Len(ordered) |->
        SendTo(ordered[i].addr,
               [m EXCEPT !.frame.destination_id = Client(ordered[i].party)])]

RECURSIVE forward_to(_, _)
forward_to(ordered, m) ==
    IF ordered = << >> THEN << >>
    ELSE << SendTo(Head(ordered).addr, m) >> \o forward_to(Tail(ordered), m)

\* server_address.do_send(..); the handler has failed before this send when
\* the handle is absent (normal_panics)
to_server(handle, m) ==
    IF handle = None THEN << >> ELSE << SendTo(handle[1].addr, m) >>

normal_sends(origin_party_id, frame, handle, gr) ==
    LET m == NewMessage(origin_party_id, frame)
        dest == frame.destination_id
    IN IF ~normal_accepted(origin_party_id, frame) THEN << >>
       ELSE IF IsWildcard(dest)
       THEN to_server(handle, m)
              \o forward_to(InOrder(room_clients(gr, room_of(frame))), m)
       ELSE IF dest.tag = "Server" THEN to_server(handle, m)
       ELSE forward_to(InOrder({e \in room_clients(gr, room_of(frame)) :
                                   e.party = dest.n}), m)

(***************************************************************************)
(* The router's handler, one action per event kind.  A handler runs to     *)
(* completion: the event is taken from the mailbox, the topology updated   *)
(* and every send of the handler issued in the same step.                  *)
(***************************************************************************)
\* a hello or goodbye as its receiver sees it: about which client, to whom
Greeting(to, room, party, uuid) ==
    [to |-> to, room |-> room, party |-> party, uuid |-> uuid]

RouterReady == ~routerCrashed /\ routerMailbox # << >>

RouterServerConnect ==
    /\ RouterReady
    /\ LET m == Head(routerMailbox)
       IN /\ m.kind = "ServerConnect"
          /\ server_handle' = Some([repr |-> get_repr(m.party), addr |-> m.addr])
          /\ lastEvent' = m
          /\ hellos' = hellos
    /\ sent' = << >>
    /\ routerMailbox' = Tail(routerMailbox)
    /\ UNCHANGED << edgeVars, game_rooms, available_rooms, routerCrashed, conns >>
    /\ UNCHANGED unitVars

RouterClientConnect ==
    /\ RouterReady
    /\ LET m == Head(routerMailbox)
       IN /\ m.kind = "ClientConnect"
          /\ game_rooms' = room_insert(game_rooms, m.room, get_repr(m.party),
                                       m.uuid, m.addr)
          /\ sent' = hello_sends(server_handle, m.room, m.party, m.uuid)
          /\ lastEvent' = m
          /\ hellos' = hellos \cup
                {Greeting(sent'[i].to, m.room, m.party, m.uuid) :
                    i \in {j \in 1 .. Len(sent') :
                              conns[sent'[j].to].state = "running"}}
    /\ conns' = Deliver(conns, sent')
    /\ routerMailbox' = Tail(routerMailbox)
    /\ UNCHANGED << edgeVars, server_handle, available_rooms, routerCrashed >>
    /\ UNCHANGED unitVars

RouterServerDisconnect ==
    /\ RouterReady
    /\ LET m == Head(routerMailbox)
       IN /\ m.kind = "Disconnect"
          /\ m.party = Server(0)
          /\ lastEvent' = m
          /\ hellos' = hellos
    /\ server_joined' = FALSE
    /\ available_rooms' = << >>
    /\ sent' = cascade_sends(game_rooms)
    /\ conns' = Deliver(conns, sent')
    /\ server_handle' = None
    /\ routerMailbox' = Tail(routerMailbox)
    /\ UNCHANGED << client_counter, srvReq, game_rooms, routerCrashed >>
    /\ UNCHANGED unitVars

RouterClientDisconnect ==
    /\ RouterReady
    /\ LET m == Head(routerMailbox)
       IN /\ m.kind = "Disconnect"
          /\ m.party # Server(0)
          /\ game_rooms' = rooms_remove(game_rooms, get_repr(m.party))
          /\ sent' = goodbye_sends(game_rooms, server_handle, m.party)
          /\ lastEvent' = m
          /\ hellos' = hellos
    /\ conns' = Deliver(conns, sent')
    /\ routerMailbox' = Tail(routerMailbox)
    /\ UNCHANGED << edgeVars, server_handle, available_rooms, routerCrashed >>
    /\ UNCHANGED unitVars

RouterSpecial ==
    /\ RouterReady
    /\ LET m == Head(routerMailbox)
       IN /\ m.kind = "NewMessage"
          /\ m.frame.message_code = "Special"
          /\ available_rooms' = IF special_accepted(m.origin, m.frame)
                                THEN published_rooms(m.frame.payload)
                                ELSE available_rooms
          /\ lastEvent' = m
          /\ hellos' = hellos
    /\ sent' = << >>
    /\ routerMailbox' = Tail(routerMailbox)
    /\ UNCHANGED << edgeVars, server_handle, game_rooms, routerCrashed, conns >>
    /\ UNCHANGED unitVars

RouterNormal ==
    /\ RouterReady
    /\ LET m == Head(routerMailbox)
       IN /\ m.kind = "NewMessage"
          /\ m.frame.message_code = "Normal"
          /\ lastEvent' = m
          /\ hellos' = hellos
          /\ IF normal_panics(m.origin, m.frame, server_handle)
             THEN /\ routerCrashed' = TRUE
                  /\ sent' = << >>
                  /\ routerMailbox' = << >>
             ELSE /\ routerCrashed' = FALSE
                  /\ sent' = normal_sends(m.origin, m.frame, server_handle,
                                          game_rooms)
                  /\ routerMailbox' = Tail(routerMailbox)
    /\ conns' = Deliver(conns, sent')
    /\ UNCHANGED << edgeVars, server_handle, game_rooms, available_rooms >>
    /\ UNCHANGED unitVars

(***************************************************************************)
(* HTTP edge: GET /server (src/main.rs, ws_server_upgrade).  The handlers  *)
(* of concurrent requests run on different worker threads; each step below *)
(* makes one access to the shared flag.                                    *)
(***************************************************************************)
\* connections already promised to handlers that passed the flag check
Reserved == Cardinality({r \in Reqs : srvReq[r] # "idle"})

CanCreate == Len(conns) + Reserved < MaxConn

\* a client_id other than the configured one: 403 without reading the flag
ServerUpgradeInvalid(r) ==
    /\ srvReq[r] = "idle"
    /\ ClearHistory
    /\ UNCHANGED << edgeVars, routerVars, routerMailbox, conns >>
    /\ UNCHANGED unitVars

\* line 89-93: the load of server_joined; 403 when it reads true
ServerUpgradeCheck(r) ==
    /\ srvReq[r] = "idle"
    /\ IF server_joined
       THEN UNCHANGED srvReq
       ELSE /\ CanCreate
            /\ srvReq' = [srvReq EXCEPT ![r] = "checked"]
    /\ ClearHistory
    /\ UNCHANGED << server_joined, client_counter, routerVars, routerMailbox,
                    conns >>
    /\ UNCHANGED unitVars

\* line 97: the store of true
ServerUpgradeStore(r) ==
    /\ srvReq[r] = "checked"
    /\ server_joined' = TRUE
    /\ srvReq' = [srvReq EXCEPT ![r] = "stored"]
    /\ ClearHistory
    /\ UNCHANGED << client_counter, routerVars, routerMailbox, conns >>
    /\ UNCHANGED unitVars

\* line 98-115: ws_start succeeded; the actor exists and ServerConnect is sent
ServerUpgradeAccept(r) ==
    /\ srvReq[r] = "stored"
    /\ conns' = Append(conns, NewActor("server", Server(0),
                                       acceptable_server_uuid, 0))
    /\ routerMailbox' = SendRouter(routerMailbox, routerCrashed,
                                   ServerConnect(Server(0), Len(conns) + 1))
    /\ srvReq' = [srvReq EXCEPT ![r] = "idle"]
    /\ ClearHistory
    /\ UNCHANGED << server_joined, client_counter, routerVars >>
    /\ UNCHANGED unitVars

\* line 103-107: ws_start failed (the request is no WebSocket handshake)
ServerUpgradeFail(r) ==
    /\ srvReq[r] = "stored"
    /\ server_joined' = FALSE
    /\ srvReq' = [srvReq EXCEPT ![r] = "idle"]
    /\ ClearHistory
    /\ UNCHANGED << client_counter, routerVars, routerMailbox, conns >>
    /\ UNCHANGED unitVars

(***************************************************************************)
(* HTTP edge: GET /client (ws_client_upgrade).  The whole handler runs     *)
(* under the client_counter mutex.                                         *)
(***************************************************************************)
\* variant: the counter may pass the wildcard value
counter_exhausted_past_wildcard(counter) == counter > ALL_CLIENT_ID

\* line 135: client_counter_guard[room_id_usize] >= ALL_CLIENT_ID
counter_exhausted(counter) == counter >= ALL_CLIENT_ID

\* variant: the counter is left as it is after an allocation
next_counter_stuck(counter) == counter

\* line 142: client_counter_guard[room_id_usize] += 1
next_counter(counter) == counter + 1

ClientUpgradeExhausted(room) ==
    /\ counter_exhausted(client_counter[room])
    /\ ClearHistory
    /\ UNCHANGED << edgeVars, routerVars, routerMailbox, conns >>
    /\ UNCHANGED unitVars

ClientUpgradeAccept(room, client_id) ==
    /\ ~counter_exhausted(client_counter[room])
    /\ CanCreate
    /\ ClearHistory
    /\ LET party_id == from_u32(client_counter[room])
       IN /\ conns' = Append(conns, NewActor("client", party_id, client_id, room))
          /\ routerMailbox' = SendRouter(routerMailbox, routerCrashed,
                                 ClientConnect(room, party_id, client_id,
                                               Len(conns) + 1))
    /\ client_counter' = [client_counter EXCEPT ![room] = next_counter(@)]
    /\ UNCHANGED << server_joined, srvReq, routerVars >>
    /\ UNCHANGED unitVars

\* ws_start failed: the index is consumed, no actor is created
ClientUpgradeFail(room) ==
    /\ ~counter_exhausted(client_counter[room])
    /\ client_counter' = [client_counter EXCEPT ![room] = next_counter(@)]
    /\ ClearHistory
    /\ UNCHANGED << server_joined, srvReq, routerVars, routerMailbox, conns >>
    /\ UNCHANGED unitVars

(***************************************************************************)
(* Connection actors (client_handler.rs, server_handler.rs).               *)
(***************************************************************************)
\* variant: every actor reports the server's party id when it stops
own_disconnect_as_server(actor) == Disconnect(Server(0), None)

\* close_and_disconnect, then stopping(): the actor's own Disconnect
own_disconnect(actor) ==
    IF actor.kind = "client"
    THEN Disconnect(actor.party_id, Some(actor.client_id))
    ELSE Disconnect(actor.party_id, None)

StopActor(c) ==
    /\ conns' = [conns EXCEPT ![c].state = "stopped", ![c].inbox = << >>]
    /\ routerMailbox' = SendRouter(routerMailbox, routerCrashed,
                                   own_disconnect(conns[c]))

\* the peer's Close frame, a WebSocket protocol error or the idle timeout
ConnClose(c) ==
    /\ conns[c].state = "running"
    /\ StopActor(c)
    /\ ClearHistory
    /\ UNCHANGED << edgeVars, routerVars >>
    /\ UNCHANGED unitVars

\* peer frames in flight: waiting at the router, or routed and not yet
\* written to a socket
PendingFrames ==
    Cardinality({i \in 1 .. Len(routerMailbox) :
                    routerMailbox[i].kind = "NewMessage"})
    + Cardinality({ci \in UNION {{c} \X (1 .. Len(conns[c].inbox)) : c \in Addrs} :
                      /\ conns[ci[1]].inbox[ci[2]].kind = "NewMessage"
                      /\ conns[ci[1]].inbox[ci[2]].frame.message_code = "Normal"})

\* a Binary frame that from_raw parsed, one of `frames`
ConnBinary(c, frames) ==
    /\ conns[c].state = "running"
    /\ PendingFrames < MaxPending
    /\ \E frame \in frames :
          routerMailbox' = SendRouter(routerMailbox, routerCrashed,
                                      NewMessage(conns[c].party_id, frame))
    /\ ClearHistory
    /\ UNCHANGED << edgeVars, routerVars, conns >>
    /\ UNCHANGED unitVars

\* Handler<InterActorMessage>: NewMessage is written to the socket
ConnForward(c) ==
    /\ conns[c].state = "running"
    /\ conns[c].inbox # << >>
    /\ Head(conns[c].inbox).kind = "NewMessage"
    /\ conns' = [conns EXCEPT ![c].inbox = Tail(@)]
    /\ ClearHistory
    /\ UNCHANGED << edgeVars, routerVars, routerMailbox >>
    /\ UNCHANGED unitVars

\* Handler<InterActorMessage>: Disconnect for the actor's own party id
ClientDisconnected(c) ==
    /\ conns[c].state = "running"
    /\ conns[c].inbox # << >>
    /\ Head(conns[c].inbox).kind = "Disconnect"
    /\ IF Head(conns[c].inbox).party = conns[c].party_id
       THEN StopActor(c)
       ELSE /\ conns' = [conns EXCEPT ![c].inbox = Tail(@)]
            /\ UNCHANGED routerMailbox
    /\ ClearHistory
    /\ UNCHANGED << edgeVars, routerVars >>
    /\ UNCHANGED unitVars

(***************************************************************************)
(* Frames a peer submits.                                                  *)
(***************************************************************************)
PeerRoomIds == Rooms \cup {RoomIdSpace + 1}

PeerDestinations ==
    {from_u32(v) : v \in {0, 1, OFFSET_SERVER_ID, ALL_CLIENT_ID,
                          ALL_CLIENT_ID_WITH_ECHO, ALL_SERVER_ID,
                          ALL_SERVER_ID_WITH_ECHO}}

ForeignOrigins(party) == {Client(0), Server(0), AllClients} \ {party}

PeerPayloads == {<< 3, 1, 2, 2 >>, << 1, 0 >>, << >>}

PeerFrames(party) ==
    {MessageStream("Normal", r, party, d, "Data", << >>) :
        r \in PeerRoomIds, d \in {Client(0), Client(1), AllClients}}
    \cup {MessageStream("Normal", 0, party, d, "Data", << >>) :
        d \in PeerDestinations}
    \cup {MessageStream("Normal", 0, o, AllClients, "Data", << >>) :
        o \in ForeignOrigins(party)}
    \cup {MessageStream("Normal", 0, party, AllClients, "Info", << 1, 0 >>)}
    \cup {MessageStream("Special", 0, party, Server(0), "Info", p) :
        p \in PeerPayloads}
    \cup {MessageStream("Special", 0, party, Server(0), "Data", << 3, 1, 2, 2 >>)}

\* the one frame of the control plane: the server's room list
ControlFrames(party) ==
    {MessageStream("Special", 0, party, Server(0), "Info", << 3, 1, 2, 2 >>)}

(***************************************************************************)
(* Spec: the control plane.  Upgrades (concurrent /server handlers and     *)
(* failed handshakes included), connection shutdown, the router's connect  *)
(* and disconnect handlers and the room-list publication.                  *)
(***************************************************************************)
Next ==
    \/ \E r \in Reqs : ServerUpgradeInvalid(r)
    \/ \E r \in Reqs : ServerUpgradeCheck(r)
    \/ \E r \in Reqs : ServerUpgradeStore(r)
    \/ \E r \in Reqs : ServerUpgradeAccept(r)
    \/ \E r \in Reqs : ServerUpgradeFail(r)
    \/ \E room \in Rooms : ClientUpgradeExhausted(room)
    \/ \E room \in Rooms : \E u \in ClientUuids(Len(conns) + 1) :
          ClientUpgradeAccept(room, u)
    \/ \E room \in Rooms : ClientUpgradeFail(room)
    \/ \E c \in Addrs : ConnClose(c)
    \/ \E c \in Addrs : ConnBinary(c, ControlFrames(conns[c].party_id))
    \/ \E c \in Addrs : ConnForward(c)
    \/ \E c \in Addrs : ClientDisconnected(c)
    \/ RouterServerConnect
    \/ RouterClientConnect
    \/ RouterServerDisconnect
    \/ RouterClientDisconnect
    \/ RouterSpecial

Spec == Init /\ [][Next]_vars

(***************************************************************************)
(* RouteSpec: the data plane.  One /server handler at a time and no failed *)
(* handshakes; peers submit Normal and Special frames.                     *)
(***************************************************************************)
RouteNext ==
    \/ ServerUpgradeCheck(1)
    \/ ServerUpgradeStore(1)
    \/ ServerUpgradeAccept(1)
    \/ \E room \in Rooms : \E u \in ClientUuids(Len(conns) + 1) :
          ClientUpgradeAccept(room, u)
    \/ \E c \in Addrs : ConnClose(c)
    \/ \E c \in Addrs : ConnBinary(c, PeerFrames(conns[c].party_id))
    \/ \E c \in Addrs : ConnForward(c)
    \/ \E c \in Addrs : ClientDisconnected(c)
    \/ RouterServerConnect
    \/ RouterClientConnect
    \/ RouterServerDisconnect
    \/ RouterClientDisconnect
    \/ RouterSpecial
    \/ RouterNormal

RouteSpec == Init /\ [][RouteNext]_vars

(***************************************************************************)
(* CodecSpec: the codec and the PartyId conversions as pure functions.     *)
(* The initial state holds one input, a frame, a byte string or a party    *)
(* id, and a step applies the function to it.                              *)
(***************************************************************************)
PartyIdValues ==
    {AllClients, AllClientsWithEcho, AllServers, AllServersWithEcho}
    \cup {Client(n) : n \in 0 .. IdSpace - 1}
    \cup {Server(n) : n \in 0 .. IdSpace - 1}

CodecRoomIds == {0, 10, 257}

CodecPayloads == {<< >>, << 255, 170 >>, << 7 >>}

CodecFrames ==
    {MessageStream(c, r, o, d, k, p) :
        c \in {"Special", "Normal"}, r \in CodecRoomIds,
        o \in PartyIdValues, d \in PartyIdValues,
        k \in {"Command", "Data", "Info"}, p \in CodecPayloads}

\* byte strings: serialised frames with up to two bytes of the header
\* replaced, cut or extended
BaseSources ==
    {into_raw(MessageStream(c, 10, Server(0), Client(1), "Data", p)) :
        c \in {"Special", "Normal"}, p \in {<< >>, << 255, 170 >>}}

CorruptAt == {0, 3, 4, 17, 18, 19}

CorruptWith == {0, 1, 94, 218}

Corrupted(source) ==
    {[source EXCEPT ![i + 1] = b, ![j + 1] = c] :
        i \in CorruptAt, b \in CorruptWith, j \in CorruptAt, c \in CorruptWith}

Resized(source) ==
    {SubSeq(source, 1, n) : n \in {0, 4, 19, 20, 21} \cap (0 .. Len(source))}
    \cup {source, source \o << 0 >>}

CodecSources ==
    UNION {Resized(s) : s \in UNION {Corrupted(b) \cup {b} : b \in BaseSources}}

CodecInit ==
    /\ SystemInit
    /\ heart = NoHeart
    /\ socket = NoFrame
    /\ codec \in {[op |-> "frame", frame |-> f] : f \in CodecFrames}
                \cup {[op |-> "source", source |-> b] : b \in CodecSources}
                \cup {[op |-> "party", party |-> p] : p \in PartyIdValues}

\* frame.into_raw()
CodecIntoRaw ==
    /\ codec.op = "frame"
    /\ \E out \in into_raw_outcomes(codec.frame) :
          codec' = [op |-> "into_raw", frame |-> codec.frame, result |-> out]
    /\ UNCHANGED << edgeVars, routerVars, routerMailbox, conns, histVars, heart, socket >>

\* MessageStream::from_raw(&frame.into_raw())
CodecRoundTrip ==
    /\ codec.op = "frame"
    /\ \E out \in into_raw_outcomes(codec.frame) :
          codec' = [op |-> "round_trip", frame |-> codec.frame,
                    result |-> IF out.tag = "Ok" THEN from_raw(out.value)
                               ELSE out]
    /\ UNCHANGED << edgeVars, routerVars, routerMailbox, conns, histVars, heart, socket >>

\* MessageStream::from_raw(source)
CodecFromRaw ==
    /\ codec.op = "source"
    /\ codec' = [op |-> "from_raw", source |-> codec.source,
                 result |-> from_raw(codec.source)]
    /\ UNCHANGED << edgeVars, routerVars, routerMailbox, conns, histVars, heart, socket >>

\* PartyId::from_u32(party.get_repr())
PartyRoundTrip ==
    /\ codec.op = "party"
    /\ \E repr \in get_repr_outcomes(codec.party) :
          codec' = [op |-> "get_repr", party |-> codec.party,
                    result |-> IF repr.tag = "Ok" THEN Ok(from_u32(repr.value))
                               ELSE repr]
    /\ UNCHANGED << edgeVars, routerVars, routerMailbox, conns, histVars, heart, socket >>

CodecNext ==
    \/ CodecIntoRaw
    \/ CodecRoundTrip
    \/ CodecFromRaw
    \/ PartyRoundTrip

CodecSpec == CodecInit /\ [][CodecNext]_vars

(***************************************************************************)
(* HeartSpec: one connection actor under the clock (ClientActor and        *)
(* ServerActor have the same heartbeat and the same frame handler).  Time  *)
(* is counted in whole seconds.  `now` is the clock, last_known_activity   *)
(* the actor's field, `out` the last frame the actor wrote to its socket.  *)
(***************************************************************************)
CLIENT_TIMEOUT == 2
HEARTBEAT_INTERVAL == 1

\* variant: the timeout is reached, not exceeded
timed_out_at_limit(now, last_known_activity) ==
    now - last_known_activity >= CLIENT_TIMEOUT

\* variant: one more second of grace
timed_out_late(now, last_known_activity) ==
    now - last_known_activity > CLIENT_TIMEOUT + 1

\* Instant::now().duration_since(actor.last_known_activity) > CLIENT_TIMEOUT
timed_out(now, last_known_activity) ==
    now - last_known_activity > CLIENT_TIMEOUT

\* the actor as new() leaves it: last_known_activity is Instant::now()
NewHeart(kind) ==
    [kind |-> kind, state |-> "running", now |-> 0, last_known_activity |-> 0,
     out |-> "none", closed_by |-> "none"]

HeartInit ==
    /\ SystemInit
    /\ codec = NoCall
    /\ socket = NoFrame
    /\ heart \in {NewHeart(k) : k \in {"client", "server"}}

HeartFrame ==
    UNCHANGED << edgeVars, routerVars, routerMailbox, conns, histVars, codec, socket >>

\* run_interval: a second passes and the heartbeat closure runs
HeartTick ==
    /\ heart.state = "running"
    /\ heart.now + HEARTBEAT_INTERVAL <= MaxTime
    /\ LET now == heart.now + HEARTBEAT_INTERVAL
       IN IF timed_out(now, heart.last_known_activity)
          THEN heart' = [heart EXCEPT !.now = now, !.state = "stopped",
                                      !.out = "Close",
                                      !.closed_by = "heartbeat"]
          ELSE heart' = [heart EXCEPT !.now = now, !.out = "Ping"]
    /\ HeartFrame

\* WsMessage::Pong and WsMessage::Binary (parsed or not): activity
HeartActivity ==
    /\ heart.state = "running"
    /\ heart' = [heart EXCEPT !.last_known_activity = heart.now]
    /\ HeartFrame

\* WsMessage::Ping: activity, answered with a Pong
HeartPing ==
    /\ heart.state = "running"
    /\ heart' = [heart EXCEPT !.last_known_activity = heart.now, !.out = "Pong"]
    /\ HeartFrame

\* WsMessage::Text: answered with a Text, no activity recorded
HeartText ==
    /\ heart.state = "running"
    /\ heart' = [heart EXCEPT !.out = "Text"]
    /\ HeartFrame

\* WsMessage::Close or a protocol error
HeartPeerClose ==
    /\ heart.state = "running"
    /\ heart' = [heart EXCEPT !.state = "stopped", !.out = "Close",
                              !.closed_by = "peer"]
    /\ HeartFrame

HeartNext ==
    \/ HeartTick
    \/ HeartActivity
    \/ HeartPing
    \/ HeartText
    \/ HeartPeerClose

HeartSpec == HeartInit /\ [][HeartNext]_vars

(***************************************************************************)
(* FairSpec: the server's departure under fair scheduling.  The router and *)
(* every connection actor keep draining their mailboxes; peers and the     *)
(* HTTP edge are under no obligation.  Peers submit one broadcast frame.   *)
(***************************************************************************)
FairFrames(party) ==
    {MessageStream("Normal", 0, party, AllClients, "Data", << >>)}

RouterStep ==
    \/ RouterServerConnect
    \/ RouterClientConnect
    \/ RouterServerDisconnect
    \/ RouterClientDisconnect
    \/ RouterNormal

ConnStep(c) ==
    /\ c \in Addrs
    /\ (ConnForward(c) \/ ClientDisconnected(c))

FairNext ==
    \/ ServerUpgradeCheck(1)
    \/ ServerUpgradeStore(1)
    \/ ServerUpgradeAccept(1)
    \/ \E room \in Rooms : \E u \in ClientUuids(Len(conns) + 1) :
          ClientUpgradeAccept(room, u)
    \/ \E c \in Addrs : ConnClose(c)
    \/ \E c \in Addrs : ConnBinary(c, FairFrames(conns[c].party_id))
    \/ \E c \in 1 .. MaxConn : ConnStep(c)
    \/ RouterStep

FairSpec ==
    /\ Init
    /\ [][FairNext]_vars
    /\ WF_vars(RouterStep)
    /\ \A c \in 1 .. MaxConn : WF_vars(ConnStep(c))

(***************************************************************************)
(* SocketSpec: the socket side of a connection actor.  Peers submit raw    *)
(* Binary frames, well formed and not, and Text frames; the actor parses   *)
(* with from_raw and forwards what parsed.  One /server handler at a time. *)
(***************************************************************************)
WsBinary(payload) == [kind |-> "Binary", payload |-> payload]
WsText == [kind |-> "Text"]

\* frames a peer serialises: its own, and one with a forged origin
SocketFrames(party) ==
    {MessageStream("Normal", 0, party, Client(0), "Data", << 7 >>),
     MessageStream("Normal", 0, AllClients, Client(0), "Data", << >>),
     MessageStream("Special", 0, party, Server(0), "Info", << 1, 0 >>)}

SocketSources(party) ==
    LET raw == {into_raw(f) : f \in SocketFrames(party)}
        one == into_raw(MessageStream("Normal", 0, party, Client(0), "Data", << 7 >>))
    IN raw \cup {[one EXCEPT ![1] = 0], SubSeq(one, 1, 19), one \o << 0 >>}

WsFrames(party) == {WsBinary(b) : b \in SocketSources(party)} \cup {WsText}

\* variant: the event carries the origin the frame claims
binary_event_claimed_origin(actor, payload) ==
    LET result == from_raw(payload)
    IN IF result.tag = "Ok"
       THEN << NewMessage(result.value.origin_id, result.value) >>
       ELSE << >>

\* WsMessage::Binary: the events sent to the router
binary_event(actor, payload) ==
    LET result == from_raw(payload)
    IN IF result.tag = "Ok"
       THEN << NewMessage(actor.party_id, result.value) >>
       ELSE << >>

\* StreamHandler::handle for a Binary or a Text frame
ConnSocket(c, ws) ==
    /\ conns[c].state = "running"
    /\ PendingFrames < MaxPending
    /\ socket' = [addr |-> c, frame |-> ws]
    /\ LET events == IF ws.kind = "Binary"
                     THEN binary_event(conns[c], ws.payload)
                     ELSE << >>
       IN routerMailbox' =
             IF events = << >> THEN routerMailbox
             ELSE SendRouter(routerMailbox, routerCrashed, events[1])
    /\ ClearHistory
    /\ UNCHANGED << edgeVars, routerVars, conns, codec, heart >>

SocketNext ==
    \/ ServerUpgradeCheck(1)
    \/ ServerUpgradeStore(1)
    \/ ServerUpgradeAccept(1)
    \/ \E u \in ClientUuids(Len(conns) + 1) : ClientUpgradeAccept(0, u)
    \/ \E c \in Addrs : ConnClose(c)
    \/ \E c \in Addrs : \E ws \in WsFrames(conns[c].party_id) : ConnSocket(c, ws)
    \/ \E c \in Addrs : ConnForward(c)
    \/ \E c \in Addrs : ClientDisconnected(c)
    \/ RouterServerConnect
    \/ RouterClientConnect
    \/ RouterServerDisconnect
    \/ RouterClientDisconnect
    \/ RouterSpecial
    \/ RouterNormal

SocketSpec == Init /\ [][SocketNext]_vars

(***************************************************************************)
(* Properties.                                                             *)
(***************************************************************************)
\* the step just taken was the router's handler for event m
Handled(m) == routerMailbox # << >> /\ m = Head(routerMailbox) /\ lastEvent' = m

RunningServers ==
    {c \in Addrs : conns[c].kind = "server" /\ conns[c].state = "running"}

\* C1: concurrent /server upgrades with the configured uuid never leave two
\* accepted server connections alive at the same time.
C1_AtMostOneServerConnection == Cardinality(RunningServers) <= 1

SendsTo(addr) == {i \in 1 .. Len(sent) : sent[i].to = addr}

\* C2: after the handler for Disconnect(Server(0)) the flag is false, the
\* room list empty, the server handle absent, and every entry of the room
\* table was sent exactly one Disconnect carrying its client's own party id
\* and uuid; nothing else was sent.
C2_ServerDisconnectCascade ==
    (lastEvent.kind = "Disconnect" /\ lastEvent.party = Server(0)) =>
        /\ server_joined = FALSE
        /\ available_rooms = << >>
        /\ server_handle = None
        /\ \A e \in game_rooms.entries :
              /\ Cardinality(SendsTo(e.addr)) = 1
              /\ \A i \in SendsTo(e.addr) :
                    /\ sent[i].msg.kind = "Disconnect"
                    /\ sent[i].msg.party = conns[e.addr].party_id
                    /\ sent[i].msg.uuid = << conns[e.addr].client_id >>
        /\ Len(sent) = Cardinality(game_rooms.entries)

C2_Witness ==
    /\ lastEvent.kind = "Disconnect"
    /\ lastEvent.party = Server(0)
    /\ Len(sent) >= 2
    /\ \E a, b \in game_rooms.entries : a.room # b.room
    /\ \E c \in Addrs : conns[c].inbox # << >> /\ Head(conns[c].inbox).kind = "Disconnect"

\* C4: ClientConnect(room, party, uuid, handle) leaves the client at
\* rooms[room][party index]; with a server handle exactly one
\* NewMessage(party, hello) goes to the server, the hello being {Special,
\* room, party, Server(0), Info, 0xF0 then the 16 uuid bytes}; without a
\* server handle nothing is sent.
C4_ClientConnectHello ==
    (lastEvent.kind = "ClientConnect") =>
        /\ \E e \in game_rooms.entries :
              /\ e.room = lastEvent.room
              /\ lastEvent.party.tag = "Client"
              /\ e.party = lastEvent.party.n
              /\ e.uuid = lastEvent.uuid
              /\ e.addr = lastEvent.addr
        /\ server_handle = None => sent = << >>
        /\ server_handle # None =>
              /\ Len(sent) = 1
              /\ sent[1].to = server_handle[1].addr
              /\ sent[1].msg.kind = "NewMessage"
              /\ sent[1].msg.origin = lastEvent.party
              /\ sent[1].msg.frame.message_code = "Special"
              /\ sent[1].msg.frame.room_id = lastEvent.room
              /\ sent[1].msg.frame.origin_id = lastEvent.party
              /\ sent[1].msg.frame.destination_id = [tag |-> "Server", n |-> 0]
              /\ sent[1].msg.frame.payload_kind = "Info"
              /\ Len(sent[1].msg.frame.payload) = 17
              /\ sent[1].msg.frame.payload[1] = 240
              /\ \A i \in 1 .. 16 :
                    sent[1].msg.frame.payload[i + 1] = lastEvent.uuid[i]

C4_Witness ==
    /\ lastEvent.kind = "ClientConnect"
    /\ server_handle # None
    /\ Len(sent) = 1
    /\ conns[server_handle[1].addr].inbox # << >>

\* C5: the handler for a client's Disconnect sends the server exactly one
\* goodbye when the party is in the room table and a server handle exists:
\* {Special, the room the departing client was in, its party, Server(0),
\* Info, 0x0F then the departing client's uuid}; it sends nothing otherwise.
C5_OneGoodbyePerDeparture ==
    [][\A m \in {lastEvent'} :
          (Handled(m) /\ m.kind = "Disconnect" /\ m.party # Server(0)) =>
             IF server_handle # None
                /\ \E e \in game_rooms.entries : e.party = get_repr(m.party)
             THEN /\ Len(sent') = 1
                  /\ sent'[1].to = server_handle[1].addr
                  /\ sent'[1].msg.kind = "NewMessage"
                  /\ sent'[1].msg.origin = m.party
                  /\ sent'[1].msg.frame.message_code = "Special"
                  /\ sent'[1].msg.frame.origin_id = m.party
                  /\ sent'[1].msg.frame.destination_id = Server(0)
                  /\ sent'[1].msg.frame.payload_kind = "Info"
                  /\ sent'[1].msg.frame.payload = << 15 >> \o m.uuid[1]
                  /\ \E e \in game_rooms.entries :
                        /\ e.uuid = m.uuid[1]
                        /\ e.room = sent'[1].msg.frame.room_id
             ELSE sent' = << >>]_vars

(***************************************************************************)
(* Properties of the data plane (RouteSpec).                               *)
(***************************************************************************)
IsNormal(m) == m.kind = "NewMessage" /\ m.frame.message_code = "Normal"

IsSpecial(m) == m.kind = "NewMessage" /\ m.frame.message_code = "Special"

\* the router let the frame pass its origin check
OriginMatches(m) == m.origin = m.frame.origin_id

Receivers == {sent[i].to : i \in 1 .. Len(sent)}

\* the frame of the last event went to the one entry at rooms[r][n], or to
\* nobody when there is no such entry
UnicastTo(r, n) ==
    LET target == {e \in game_rooms.entries : e.room = r /\ e.party = n}
    IN IF target = {}
       THEN sent = << >>
       ELSE /\ Len(sent) = 1
            /\ sent[1].msg = lastEvent
            /\ \E e \in target : sent[1].to = e.addr

\* C6 (as stated): a Normal frame that passed the origin check, with
\* destination Client(n), goes to exactly the connection at
\* rooms[frame.room_id][n] when that entry exists and to nobody otherwise.
C6_UnicastByFrameRoom ==
    (IsNormal(lastEvent) /\ OriginMatches(lastEvent)
       /\ lastEvent.frame.destination_id.tag = "Client") =>
        UnicastTo(lastEvent.frame.room_id, lastEvent.frame.destination_id.n)

\* C6 (amended): the same with the room taken as the low 8 bits of
\* frame.room_id.
C6_UnicastByTruncatedRoom ==
    (IsNormal(lastEvent) /\ OriginMatches(lastEvent)
       /\ lastEvent.frame.destination_id.tag = "Client") =>
        UnicastTo(lastEvent.frame.room_id % 256,
                  lastEvent.frame.destination_id.n)

C6_Witness ==
    /\ IsNormal(lastEvent)
    /\ OriginMatches(lastEvent)
    /\ lastEvent.frame.destination_id.tag = "Client"
    /\ Len(sent) = 1
    /\ Cardinality(game_rooms.entries) >= 2
    /\ conns[sent[1].to].inbox # << >>

\* C7: a Normal frame that passed the origin check, with a wildcard
\* destination, is received by exactly the connected server and every client
\* in rooms[room], whichever of the four wildcards it names.
C7_BroadcastReceivers ==
    (IsNormal(lastEvent) /\ OriginMatches(lastEvent)
       /\ IsWildcard(lastEvent.frame.destination_id)) =>
        Receivers =
            (IF server_handle # None THEN {server_handle[1].addr} ELSE {})
            \cup {e.addr : e \in {x \in game_rooms.entries :
                                    x.room = lastEvent.frame.room_id % 256}}

StrictlyAscending(seq) == \A i \in 1 .. Len(seq) - 1 : seq[i] < seq[i + 1]

Elements(seq) == {seq[i] : i \in 1 .. Len(seq)}

\* C8: a Special frame replaces the room list by its payload sorted
\* ascending without duplicates when it is Info and comes from Server(0),
\* and leaves the list alone otherwise; it is forwarded to nobody and
\* changes neither the room table nor the server handle.
C8_SpecialPublishesRooms ==
    [][\A m \in {lastEvent'} :
          (Handled(m) /\ IsSpecial(m)) =>
             /\ IF m.frame.payload_kind = "Info" /\ m.origin = Server(0)
                THEN /\ StrictlyAscending(available_rooms')
                     /\ Elements(available_rooms') = Elements(m.frame.payload)
                     /\ m.frame.payload = << 3, 1, 2, 2 >> =>
                           available_rooms' = << 1, 2, 3 >>
                ELSE available_rooms' = available_rooms
             /\ sent' = << >>
             /\ conns' = conns
             /\ game_rooms' = game_rooms
             /\ server_handle' = server_handle]_vars

C8_Witness ==
    /\ IsSpecial(lastEvent)
    /\ lastEvent.origin = Server(0)
    /\ lastEvent.frame.payload = << 3, 1, 2, 2 >>
    /\ available_rooms = << 1, 2, 3 >>

\* C9: a Normal frame is delivered only when its origin_id is the party id
\* of the connection that submitted it, a single Client(n) or Server(n); a
\* frame with another or a wildcard origin is delivered to nobody and
\* changes no router state.
C9_OriginChecked ==
    [][\A m \in {lastEvent'} :
          (Handled(m) /\ IsNormal(m)) =>
             /\ sent' # << >> =>
                   /\ m.frame.origin_id = m.origin
                   /\ m.frame.origin_id.tag \in {"Client", "Server"}
                   /\ \E c \in Addrs : conns[c].party_id = m.frame.origin_id
             /\ (m.frame.origin_id # m.origin \/ IsWildcard(m.frame.origin_id)) =>
                   /\ sent' = << >>
                   /\ conns' = conns
                   /\ server_handle' = server_handle
                   /\ game_rooms' = game_rooms
                   /\ available_rooms' = available_rooms
                   /\ server_joined' = server_joined
                   /\ routerCrashed' = routerCrashed]_vars

C9_Witness ==
    /\ IsNormal(lastEvent)
    /\ lastEvent.frame.origin_id # lastEvent.origin
    /\ sent = << >>
    /\ server_handle # None
    /\ \E e \in game_rooms.entries :
          e.room = lastEvent.frame.room_id /\ conns[e.addr].state = "running"

\* C10: a Normal frame from a client that names a room the client did not
\* join is delivered to no client and not to the server.
C10_CrossRoomDropped ==
    (/\ IsNormal(lastEvent)
     /\ lastEvent.origin.tag = "Client"
     /\ \A c \in Addrs :
           (conns[c].kind = "client" /\ conns[c].party_id = lastEvent.origin)
              => conns[c].room # lastEvent.frame.room_id % 256) =>
        sent = << >>

(***************************************************************************)
(* Properties of the server's departure (FairSpec).                        *)
(***************************************************************************)
ServerLeft == lastEvent.kind = "Disconnect" /\ lastEvent.party = Server(0)

InTable(c) == \E e \in game_rooms.entries : e.addr = c

\* C3: under fair scheduling of the actors, every client in the room table
\* when the router has processed the server's Disconnect eventually has its
\* connection closed and is eventually removed from the room table.
C3_CascadeCompletes ==
    \A c \in 1 .. MaxConn :
        (ServerLeft /\ InTable(c)) ~>
            (c \in Addrs /\ conns[c].state = "stopped" /\ ~InTable(c))

(***************************************************************************)
(* Properties of the codec (CodecSpec).                                    *)
(***************************************************************************)
\* C11: for every frame, parsing the serialised frame succeeds and gives
\* the frame back.
C11_FrameRoundTrip ==
    codec.op = "round_trip" => codec.result = Ok(codec.frame)

\* C12: for every PartyId p, get_repr(p) is defined and
\* from_u32(get_repr(p)) = p.
C12_PartyRoundTrip ==
    codec.op = "get_repr" => codec.result = Ok(codec.party)

\* the error the first failing check of the list gives, "Ok" when none fails
FirstFailingCheck(b) ==
    IF Len(b) < 20 THEN "length is less than the header length"
    ELSE IF SubSeq(b, 1, 4) # << 239, 190, 237, 254 >> THEN "Corrupted PREAMBLE"
    ELSE IF b[5] \notin {0, 94} THEN "Invalid MessageCode"
    ELSE IF b[18] \notin {192, 218, 31} THEN "Invalid PayloadKind"
    ELSE IF b[19] + 256 * b[20] + 20 # Len(b) THEN "length is less than the length"
    ELSE "Ok"

\* C13: from_raw reports the first failing check in the order short header,
\* bad preamble, bad message code, bad payload kind, length mismatch, and
\* succeeds when none fails.
C13_ErrorOrder ==
    codec.op = "from_raw" =>
        IF FirstFailingCheck(codec.source) = "Ok"
        THEN codec.result.tag = "Ok"
        ELSE codec.result = Err(FirstFailingCheck(codec.source))

\* a bad preamble reported although the message code is bad as well
C13_Witness ==
    /\ codec.op = "from_raw"
    /\ Len(codec.source) >= 20
    /\ codec.source[1] # 239
    /\ codec.source[5] \notin {0, 94}
    /\ codec.result = Err("Corrupted PREAMBLE")

\* PartyId encoding as the wire format defines it
WireId(p) ==
    CASE p.tag = "AllClients" -> ALL_CLIENT_ID
      [] p.tag = "AllClientsWithEcho" -> ALL_CLIENT_ID_WITH_ECHO
      [] p.tag = "AllServers" -> ALL_SERVER_ID
      [] p.tag = "AllServersWithEcho" -> ALL_SERVER_ID_WITH_ECHO
      [] p.tag = "Client" -> p.n
      [] p.tag = "Server" -> p.n + OFFSET_SERVER_ID

\* C14: into_raw returns 20 + len(payload) bytes: the preamble EF BE ED FE,
\* the message code at byte 4, room_id at 5..9, the encoded origin at 9..13,
\* the encoded destination at 13..17, the payload kind at byte 17, the
\* payload length at 18..20 and the payload from byte 20.
C14_SerialisedLayout ==
    codec.op = "into_raw" =>
        /\ codec.result.tag = "Ok"
        /\ LET f == codec.frame
               raw == codec.result.value
           IN /\ Len(raw) = 20 + Len(f.payload)
              /\ SubSeq(raw, 1, 4) = << 239, 190, 237, 254 >>
              /\ raw[5] = (IF f.message_code = "Special" THEN 94 ELSE 0)
              /\ from_le_bytes(SubSeq(raw, 6, 9)) = f.room_id
              /\ from_le_bytes(SubSeq(raw, 10, 13)) = WireId(f.origin_id)
              /\ from_le_bytes(SubSeq(raw, 14, 17)) = WireId(f.destination_id)
              /\ raw[18] = (CASE f.payload_kind = "Command" -> 192
                              [] f.payload_kind = "Data" -> 218
                              [] f.payload_kind = "Info" -> 31)
              /\ raw[19] + 256 * raw[20] = Len(f.payload)
              /\ SubSeq(raw, 21, Len(raw)) = f.payload

(***************************************************************************)
(* Properties of the heartbeat (HeartSpec).                                *)
(***************************************************************************)
Silence == heart.now - heart.last_known_activity

ClosedByHeartbeat ==
    heart.state = "stopped" /\ heart.closed_by = "heartbeat" /\ heart.out = "Close"

\* C15 (as stated): a connection silent for 2s has received a Close from
\* its heartbeat and has stopped.
C15_ClosedAtTwoSeconds ==
    Silence >= 2 => (heart.state = "stopped" /\ heart.out = "Close")

\* C15 (amended): the heartbeat closes the connection at the first tick
\* where the silence exceeds 2s, which is 3s after the last activity: a
\* connection silent for more than 2s has received a Close and stopped,
\* and at the tick where the silence is 2s it is sent a Ping.
C15_ClosedPastTwoSeconds ==
    /\ [](Silence > 2 => (ClosedByHeartbeat /\ Silence = 3))
    /\ [][(heart.state = "running" /\ heart'.now = heart.now + 1) =>
             IF heart'.now - heart.last_known_activity > 2
             THEN heart'.state = "stopped" /\ heart'.out = "Close"
             ELSE heart'.state = "running" /\ heart'.out = "Ping"]_vars

C15_Witness == ClosedByHeartbeat /\ Silence = 3 /\ heart.now > 3

\* C16: while the peer's Pong, Ping or Binary frames are at most 2s apart,
\* every heartbeat tick sends a Ping and leaves the connection running; the
\* heartbeat closes a connection only after more than 2s without one.
C16_ActivePeerNeverClosed ==
    /\ [](ClosedByHeartbeat => Silence > 2)
    /\ [][(heart.state = "running" /\ heart'.now = heart.now + 1
             /\ heart'.now - heart.last_known_activity <= 2) =>
             (heart'.state = "running" /\ heart'.out = "Ping")]_vars

\* still running after twice the timeout, the last activity 2s before a tick
C16_Witness ==
    /\ heart.state = "running"
    /\ heart.now > 4
    /\ Silence = 2
    /\ heart.out = "Ping"

(***************************************************************************)
(* Properties of the client index allocator (Spec).                        *)
(***************************************************************************)
ClientsOf(cs, room) ==
    {c \in 1 .. Len(cs) : cs[c].kind = "client" /\ cs[c].room = room}

\* C17 (as stated): no join pushes a room's counter to ALL_CLIENT_ID; the
\* join that would is rejected and leaves the counter unchanged.
C17_NoJoinReachesLimit ==
    [][\A room \in Rooms :
          client_counter'[room] = ALL_CLIENT_ID =>
             client_counter[room] = ALL_CLIENT_ID]_vars

\* C17 (amended): a join is accepted only while the room's counter is below
\* ALL_CLIENT_ID, takes the counter's value as its index and adds one to the
\* counter, so the join at ALL_CLIENT_ID - 1 is accepted and brings the
\* counter to ALL_CLIENT_ID; at ALL_CLIENT_ID every join is rejected and the
\* counter stays.
C17_JoinOnlyBelowLimit ==
    /\ [](\A room \in Rooms : client_counter[room] <= ALL_CLIENT_ID)
    /\ [][\A room \in Rooms :
             /\ client_counter'[room] # client_counter[room] =>
                   /\ client_counter[room] < ALL_CLIENT_ID
                   /\ client_counter'[room] = client_counter[room] + 1
             /\ ClientsOf(conns', room) # ClientsOf(conns, room) =>
                   /\ client_counter[room] < ALL_CLIENT_ID
                   /\ client_counter'[room] = client_counter[room] + 1
                   /\ conns'[Len(conns')].party_id = Client(client_counter[room])
             /\ client_counter[room] = ALL_CLIENT_ID =>
                   /\ client_counter'[room] = ALL_CLIENT_ID
                   /\ ClientsOf(conns', room) = ClientsOf(conns, room)]_vars

\* the join at ALL_CLIENT_ID - 1 was accepted and the room is now exhausted
C17_Witness ==
    \E room \in Rooms :
        /\ client_counter[room] = ALL_CLIENT_ID
        /\ \E c \in ClientsOf(conns, room) :
              conns[c].party_id = Client(ALL_CLIENT_ID - 1)

(***************************************************************************)
(* Properties of the room table (Spec) and of the room list (RouteSpec).   *)
(***************************************************************************)
\* C18: a client party index is present in at most one room of the room
\* table, so a client Disconnect removes at most one entry.
C18_IndexInOneRoom ==
    /\ [](\A a \in game_rooms.entries : \A b \in game_rooms.entries :
             a.party = b.party => a.room = b.room)
    /\ [][\A m \in {lastEvent'} :
             (Handled(m) /\ m.kind = "Disconnect" /\ m.party # Server(0)) =>
                Cardinality(game_rooms.entries \ game_rooms'.entries) <= 1]_vars

\* C19: the Disconnect of one client connection leaves the room-table entry
\* of every other client whose connection is still running in place.
C19_OtherClientsKept ==
    [][\A m \in {lastEvent'} :
          (Handled(m) /\ m.kind = "Disconnect" /\ m.party # Server(0)) =>
             \A e \in game_rooms.entries :
                (Some(e.uuid) # m.uuid /\ conns[e.addr].state = "running") =>
                   e \in game_rooms'.entries]_vars

\* C20: the published room list is strictly ascending and has at most 256
\* entries.
C20_RoomListSorted ==
    /\ \A i \in 1 .. Len(available_rooms) - 1 :
          available_rooms[i] < available_rooms[i + 1]
    /\ Len(available_rooms) <= 256

\* a list published from a payload that was not in order
C20_Witness ==
    /\ IsSpecial(lastEvent)
    /\ lastEvent.frame.payload = << 1, 0 >>
    /\ available_rooms = << 0, 1 >>

(***************************************************************************)
(* C21: every frame the router delivers in response to a Normal NewMessage *)
(* is field for field the frame it received (message_code, room_id,        *)
(* origin_id, destination_id, payload_kind, payload), for a unicast and    *)
(* for every receiver of a broadcast.  Checked under RouteSpec.            *)
(***************************************************************************)
SameFrame(f, g) ==
    /\ f.message_code = g.message_code
    /\ f.room_id = g.room_id
    /\ f.origin_id = g.origin_id
    /\ f.destination_id = g.destination_id
    /\ f.payload_kind = g.payload_kind
    /\ f.payload = g.payload

C21_FramesVerbatim ==
    IsNormal(lastEvent) =>
        \A i \in 1 .. Len(sent) :
            /\ sent[i].msg.kind = "NewMessage"
            /\ sent[i].msg.origin = lastEvent.origin
            /\ SameFrame(sent[i].msg.frame, lastEvent.frame)

\* a broadcast with a payload that reached the server and a client
C21_Witness ==
    /\ IsNormal(lastEvent)
    /\ IsWildcard(lastEvent.frame.destination_id)
    /\ lastEvent.frame.payload # << >>
    /\ \E i, j \in 1 .. Len(sent) :
          conns[sent[i].to].kind = "client" /\ conns[sent[j].to].kind = "server"

(***************************************************************************)
(* C22: with no server handle present, a Normal frame from a client with a *)
(* wildcard destination is still delivered to every client of the frame's  *)
(* room and the router keeps running.  Checked under RouteSpec.            *)
(***************************************************************************)
FromClient(m) == OriginMatches(m) /\ m.origin.tag = "Client"

C22_BroadcastWithoutServer ==
    (IsNormal(lastEvent) /\ FromClient(lastEvent)
       /\ IsWildcard(lastEvent.frame.destination_id)
       /\ server_handle = None) =>
        /\ ~routerCrashed
        /\ Receivers =
              {e.addr : e \in room_clients(game_rooms, room_of(lastEvent.frame))}

(***************************************************************************)
(* C23: a client can be connected while no server handle is present, and a *)
(* Normal frame from that client with destination Server(_) then makes the *)
(* router fail: nothing is delivered and the router handles no further     *)
(* event.  Checked under RouteSpec.                                        *)
(***************************************************************************)
ToAbsentServer(m) ==
    /\ IsNormal(m)
    /\ FromClient(m)
    /\ m.frame.destination_id.tag = "Server"
    /\ server_handle = None

C23_ServerUnicastWithoutServerFails ==
    /\ [](ToAbsentServer(lastEvent) => routerCrashed /\ sent = << >>)
    /\ [](routerCrashed => routerMailbox = << >>)
    /\ [][routerCrashed => routerVars' = routerVars /\ routerCrashed']_vars

\* the router has failed on the frame of a client that is in a room and whose
\* connection is still open
C23_Witness ==
    /\ ToAbsentServer(lastEvent)
    /\ routerCrashed
    /\ \E e \in game_rooms.entries :
          /\ e.party = lastEvent.origin.n
          /\ conns[e.addr].state = "running"
          /\ conns[e.addr].party_id = lastEvent.origin

(***************************************************************************)
(* C24: a connection that stops, whatever the cause, sends exactly one     *)
(* Disconnect carrying its own party id to the router and no NewMessage    *)
(* afterwards: the step that stops it is the step that sends its           *)
(* Disconnect, every Disconnect and every NewMessage the router is sent    *)
(* comes from a connection stopping, respectively running, in that step,   *)
(* and a stopped connection never runs again.  A send to a router that has *)
(* failed is lost.  Checked under RouteSpec.                               *)
(***************************************************************************)
StoppingNow(c) == conns[c].state = "running" /\ conns'[c].state = "stopped"

SentToRouter ==
    IF /\ Len(routerMailbox') = Len(routerMailbox) + 1
       /\ SubSeq(routerMailbox', 1, Len(routerMailbox)) = routerMailbox
    THEN << routerMailbox'[Len(routerMailbox')] >>
    ELSE << >>

C24_OneDisconnectPerStop ==
    [][/\ Cardinality({c \in Addrs : StoppingNow(c)}) <= 1
       /\ \A c \in Addrs :
             /\ StoppingNow(c) =>
                   IF routerCrashed
                   THEN routerMailbox' = routerMailbox
                   ELSE /\ Len(SentToRouter) = 1
                        /\ SentToRouter[1].kind = "Disconnect"
                        /\ SentToRouter[1].party = conns[c].party_id
             /\ conns[c].state = "stopped" => conns'[c] = conns[c]
       /\ \A i \in 1 .. Len(SentToRouter) :
             LET m == SentToRouter[i]
             IN /\ m.kind = "Disconnect" =>
                      \E c \in Addrs :
                          StoppingNow(c) /\ m.party = conns[c].party_id
                /\ m.kind = "NewMessage" =>
                      \E c \in Addrs :
                          /\ conns[c].state = "running"
                          /\ conns'[c].state = "running"
                          /\ conns[c].party_id = m.origin
      ]_vars

\* a client closed by the router's Disconnect after the server left; its own
\* Disconnect is the last event in the router's mailbox
C24_Witness ==
    /\ server_handle = None
    /\ routerMailbox # << >>
    /\ \E c \in Addrs :
          /\ conns[c].kind = "client"
          /\ conns[c].state = "stopped"
          /\ routerMailbox[Len(routerMailbox)]
               = Disconnect(conns[c].party_id, Some(conns[c].client_id))
          /\ \E s \in Addrs : conns[s].kind = "server" /\ conns[s].state = "stopped"

(***************************************************************************)
(* C25: a Binary frame that does not parse, and any Text frame, leaves the *)
(* connection open and sends the router nothing; a Binary frame that       *)
(* parses sends the router exactly one NewMessage(own party id, frame).    *)
(* Checked under SocketSpec.                                               *)
(***************************************************************************)
Parses(ws) == ws.kind = "Binary" /\ FirstFailingCheck(ws.payload) = "Ok"

C25_SocketFrames ==
    [][socket' # socket =>
          LET c == socket'.addr
              ws == socket'.frame
          IN /\ conns[c].state = "running"
             /\ conns' = conns
             /\ routerVars' = routerVars
             /\ IF Parses(ws)
                THEN IF routerCrashed
                     THEN routerMailbox' = routerMailbox
                     ELSE routerMailbox' =
                             Append(routerMailbox,
                                    NewMessage(conns[c].party_id,
                                               from_raw(ws.payload).value))
                ELSE routerMailbox' = routerMailbox
      ]_vars

\* a connection that has handled a malformed Binary frame is open and the
\* router, running, has been sent nothing
C25_Witness ==
    /\ socket # NoFrame
    /\ socket.frame.kind = "Binary"
    /\ ~Parses(socket.frame)
    /\ Len(socket.frame.payload) >= 20
    /\ conns[socket.addr].state = "running"
    /\ ~routerCrashed
    /\ routerMailbox = << >>
    /\ lastEvent = NoEvent

(***************************************************************************)
(* C26: the per-room client counters are reset when the server rejoins:    *)
(* once a server has disconnected and a new server is accepted, no room's  *)
(* counter is exhausted, so joins for every room are accepted again.       *)
(* Checked under Spec.                                                     *)
(***************************************************************************)
ServerAcceptedNow ==
    /\ Len(conns') = Len(conns) + 1
    /\ conns'[Len(conns')].kind = "server"

C26_CountersResetOnRejoin ==
    [][(/\ ServerAcceptedNow
        /\ \E c \in Addrs : conns[c].kind = "server" /\ conns[c].state = "stopped")
         => \A room \in Rooms : client_counter'[room] < ALL_CLIENT_ID
      ]_vars

(***************************************************************************)
(* C27: while no server is joined no client can join: a /client upgrade    *)
(* that arrives while the server-joined flag is false is not accepted, so  *)
(* no client connection is created and the router is not told of one.      *)
(* Checked under Spec.                                                     *)
(***************************************************************************)
C27_NoJoinWithoutServer ==
    [][~server_joined =>
          /\ \A room \in Rooms : ClientsOf(conns', room) = ClientsOf(conns, room)
          /\ \A i \in 1 .. Len(SentToRouter) :
                SentToRouter[i].kind # "ClientConnect"
      ]_vars

(***************************************************************************)
(* C28: when the server disconnects the router clears its topology: right  *)
(* after the handler for Disconnect(Server(0)) the room table holds no     *)
(* client entry, and a Normal frame routed right afterwards reaches no     *)
(* client.  Checked under RouteSpec.                                       *)
(***************************************************************************)
ServerJustLeft == lastEvent.kind = "Disconnect" /\ lastEvent.party = Server(0)

C28_TopologyClearedOnServerExit ==
    /\ [](ServerJustLeft => game_rooms.entries = {})
    /\ [][(ServerJustLeft /\ IsNormal(lastEvent')) =>
             \A i \in 1 .. Len(sent') : conns[sent'[i].to].kind # "client"]_vars

(***************************************************************************)
(* C29: within one room, whatever the interleaving of /client upgrades and *)
(* departures, the party indices of the accepted clients are strictly      *)
(* increasing in allocation order (hence pairwise distinct, and never      *)
(* handed out again after a client has left) and below ALL_CLIENT_ID, so   *)
(* each decodes to Client(n) and never to a wildcard.  `conns` keeps the   *)
(* accepted connections, departed ones included, in allocation order.      *)
(* Checked under Spec.                                                     *)
(***************************************************************************)
C29_IndicesDistinctIncreasing ==
    \A room \in Rooms :
        \A a \in ClientsOf(conns, room) :
            /\ conns[a].party_id.tag = "Client"
            /\ conns[a].party_id.n < ALL_CLIENT_ID
            /\ conns[a].party_id.n < client_counter[room]
            /\ from_u32(get_repr(conns[a].party_id)) = conns[a].party_id
            /\ \A b \in ClientsOf(conns, room) :
                  a < b => conns[a].party_id.n < conns[b].party_id.n

\* a client joined a room after an earlier client of that room had left and
\* been removed from the room table
C29_Witness ==
    \E room \in Rooms :
        \E a, b \in ClientsOf(conns, room) :
            /\ a < b
            /\ conns[a].state = "stopped"
            /\ \A e \in game_rooms.entries : e.addr # a
            /\ conns[b].state = "running"
            /\ \E e \in game_rooms.entries : e.addr = b /\ e.room = room

(***************************************************************************)
(* C30: handling a Disconnect for a client party id that is in no room is  *)
(* a no-op: the room table, the server handle, the server-joined flag and  *)
(* the rooms list are unchanged and nothing is sent.  After a client       *)
(* Disconnect has been handled its party id is in no room, so handling the *)
(* same Disconnect again changes nothing.  Checked under Spec.             *)
(***************************************************************************)
InNoRoom(party) == \A e \in game_rooms.entries : e.party # get_repr(party)

C30_RedundantDisconnectNoOp ==
    /\ []((lastEvent.kind = "Disconnect" /\ lastEvent.party # Server(0))
            => InNoRoom(lastEvent.party))
    /\ [][\A m \in {lastEvent'} :
             (Handled(m) /\ m.kind = "Disconnect" /\ m.party # Server(0)
                /\ InNoRoom(m.party)) =>
                  /\ game_rooms' = game_rooms
                  /\ server_handle' = server_handle
                  /\ server_joined' = server_joined
                  /\ available_rooms' = available_rooms
                  /\ routerCrashed' = routerCrashed
                  /\ sent' = << >>
                  /\ conns' = conns]_vars

\* the Disconnect of a stopped client has just been handled while a server
\* is known to the router, and nothing was sent: it removed no entry
C30_Witness ==
    /\ lastEvent.kind = "Disconnect"
    /\ lastEvent.party # Server(0)
    /\ server_handle # None
    /\ sent = << >>
    /\ \E c \in Addrs :
          /\ conns[c].kind = "client"
          /\ conns[c].state = "stopped"
          /\ lastEvent = Disconnect(conns[c].party_id, Some(conns[c].client_id))

(***************************************************************************)
(* C31: the room table never keeps a closed connection: once a client      *)
(* connection has stopped and the router's mailbox holds no event about it *)
(* (its ClientConnect from the edge, its own Disconnect), the client is    *)
(* absent from the room table, and it stays absent.  Checked under Spec.   *)
(***************************************************************************)
Concerns(m, c) ==
    \/ m.kind = "ClientConnect" /\ m.addr = c
    \/ m.kind = "Disconnect" /\ m.uuid = Some(conns[c].client_id)

Settled(c) ==
    /\ conns[c].kind = "client"
    /\ conns[c].state = "stopped"
    /\ \A i \in 1 .. Len(routerMailbox) : ~Concerns(routerMailbox[i], c)

C31_NoClosedConnectionInTable ==
    /\ [](\A c \in Addrs : Settled(c) => ~InTable(c))
    /\ [][\A c \in Addrs :
             Settled(c) => \A e \in game_rooms'.entries : e.addr # c]_vars

\* the router has just handled the Disconnect of a stopped client, removed
\* its entry and told the server; other clients remain in the table
C31_Witness ==
    /\ server_handle # None
    /\ sent # << >>
    /\ game_rooms.entries # {}
    /\ \E c \in Addrs :
          /\ Settled(c)
          /\ lastEvent = Disconnect(conns[c].party_id, Some(conns[c].client_id))

(***************************************************************************)
(* C32: every goodbye delivered to a server connection is preceded by a    *)
(* hello for the same client (same room, party id and uuid) delivered to   *)
(* that same server connection; a server that joins after an earlier       *)
(* server has left gets no goodbye for a client it was never told of.      *)
(* Checked under Spec.                                                     *)
(***************************************************************************)
IsGoodbye(m) ==
    /\ m.kind = "NewMessage"
    /\ m.frame.message_code = "Special"
    /\ m.frame.payload # << >>
    /\ Head(m.frame.payload) = GoodbyeByte

C32_GoodbyeAfterHello ==
    \A i \in 1 .. Len(sent) :
        (IsGoodbye(sent[i].msg) /\ conns[sent[i].to].state = "running") =>
            Greeting(sent[i].to, sent[i].msg.frame.room_id,
                     sent[i].msg.frame.origin_id,
                     Tail(sent[i].msg.frame.payload)) \in hellos

(***************************************************************************)
(* C33: after the server connection has stopped, under fair scheduling the *)
(* router eventually clears the server-joined flag and forgets the server  *)
(* handle; a /server upgrade accepted afterwards eventually becomes the    *)
(* router's server handle.  Checked under FairSpec.                        *)
(***************************************************************************)
ServerGone ==
    /\ \E s \in Addrs : conns[s].kind = "server"
    /\ \A s \in Addrs : conns[s].kind = "server" => conns[s].state = "stopped"
    /\ \A r \in Reqs : srvReq[r] = "idle"

Announced(s) ==
    /\ s \in Addrs
    /\ \E i \in 1 .. Len(routerMailbox) :
          routerMailbox[i].kind = "ServerConnect" /\ routerMailbox[i].addr = s
    /\ \E s0 \in 1 .. s - 1 :
          conns[s0].kind = "server" /\ conns[s0].state = "stopped"

C33_ServerCanRejoin ==
    /\ ServerGone ~> (~server_joined /\ server_handle = None)
    /\ \A s \in 1 .. MaxConn :
          Announced(s) ~> (server_handle # None /\ server_handle[1].addr = s)

=============================================================================
